---- MODULE Spec2Model ----
(***************************************************************************)
(* Model of investor_intel_bot.py: the four-node research pipeline         *)
(* (query -> analyze -> format -> insights), the aggregation it performs, *)
(* the pyplot figure registry its chart rendering goes through, and the   *)
(* interactive loop of main.                                               *)
(*                                                                         *)
(* Conventions.  A JSON object is a record whose DOMAIN is the set of keys *)
(* present.  A Python str is a sequence of string tokens; concatenation is *)
(* \o.  An Optional[...] field of a Python object is <<>> for None and     *)
(* <<v>> for a value.  A display name that is null is the string None.     *)
(***************************************************************************)
EXTENDS Integers, Sequences, FiniteSets, TLC

----------------------------------------------------------------------------
(* Bounds of the model *)

MaxRecords == 6
MaxRuns == 2

(* Program constants *)

TopN == 5

None == "<None>"

----------------------------------------------------------------------------
(* Python built-ins used by the program *)

\* dict.get(key, default)
Get(d, k, default) == IF k \in DOMAIN d THEN d[k] ELSE default

\* seq[:n]
Take(s, n) == IF Len(s) <= n THEN s ELSE SubSeq(s, 1, n)

Range(s) == {s[i] : i \in 1..Len(s)}

RECURSIVE Concat(_)
\* the concatenation of a sequence of sequences (list.extend in a loop)
Concat(ss) == IF ss = <<>> THEN <<>> ELSE Head(ss) \o Concat(Tail(ss))

\* one step of Counter.update: dict insertion order is first-occurrence order
CounterAdd(c, k) ==
    IF \E i \in 1..Len(c) : c[i][1] = k
    THEN [i \in 1..Len(c) |-> IF c[i][1] = k THEN <<k, c[i][2] + 1>> ELSE c[i]]
    ELSE Append(c, <<k, 1>>)

RECURSIVE CounterFrom(_, _)
CounterFrom(c, xs) ==
    IF xs = <<>> THEN c ELSE CounterFrom(CounterAdd(c, Head(xs)), Tail(xs))

\* Counter(xs): the (key, count) items in insertion order
Counter(xs) == CounterFrom(<<>>, xs)

\* sorted(items, key=count, reverse=True) is stable: an item goes behind every
\* item already placed whose count is at least its own
InsertDesc(sorted, item) ==
    LET n == Cardinality({i \in 1..Len(sorted) : sorted[i][2] >= item[2]})
    IN  SubSeq(sorted, 1, n) \o <<item>> \o SubSeq(sorted, n + 1, Len(sorted))

RECURSIVE SortDescFrom(_, _)
SortDescFrom(sorted, items) ==
    IF items = <<>> THEN sorted
    ELSE SortDescFrom(InsertDesc(sorted, Head(items)), Tail(items))

\* a plausible slip: ties broken by last occurrence (unstable selection)
most_common_unstable(c, n) ==
    LET InsertFront(sorted, item) ==
            LET k == Cardinality({i \in 1..Len(sorted) : sorted[i][2] > item[2]})
            IN  SubSeq(sorted, 1, k) \o <<item>> \o SubSeq(sorted, k + 1, Len(sorted))
        F[i \in 0..Len(c)] == IF i = 0 THEN <<>> ELSE InsertFront(F[i - 1], c[i])
    IN  Take(F[Len(c)], n)

\* a plausible slip: the cut-off is forgotten
most_common_all(c, n) == SortDescFrom(<<>>, c)

\* Counter.most_common(n) = heapq.nlargest(n, items, key=count)
most_common(c, n) == Take(SortDescFrom(<<>>, c), n)

\* sorted(d.items()) for a dict with distinct integer keys
InsertAsc(sorted, item) ==
    LET n == Cardinality({i \in 1..Len(sorted) : sorted[i][1] < item[1]})
    IN  SubSeq(sorted, 1, n) \o <<item>> \o SubSeq(sorted, n + 1, Len(sorted))

RECURSIVE SortAscFrom(_, _)
SortAscFrom(sorted, items) ==
    IF items = <<>> THEN sorted
    ELSE SortAscFrom(InsertAsc(sorted, Head(items)), Tail(items))

\* a plausible slip: the Counter is stored without sorting
sorted_items_unsorted(c) == c

sorted_items(c) == SortAscFrom(<<>>, c)

----------------------------------------------------------------------------
(* analyze_research_data, lines 68-106: the statistics before charts *)

\* truthiness of paper.get("publication_year")
HasYear(paper) ==
    "publication_year" \in DOMAIN paper /\ paper.publication_year # 0

\* years = [paper.get("publication_year") for paper in results if ...]
YearsOf(results) ==
    LET F[i \in 0..Len(results)] ==
            IF i = 0 THEN <<>>
            ELSE IF HasYear(results[i])
                 THEN Append(F[i - 1], results[i].publication_year)
                 ELSE F[i - 1]
    IN  F[Len(results)]

\* truthiness of inst.get("institutions")
HasInstitutions(a) == "institutions" \in DOMAIN a /\ a.institutions # <<>>

\* truthiness of author.get("author")
HasAuthor(a) == "author" \in DOMAIN a /\ DOMAIN a.author # {}

\* [i.get("display_name") for i in inst.get("institutions", [])]
InstitutionNames(a) ==
    [j \in 1..Len(a.institutions) |-> Get(a.institutions[j], "display_name", None)]

\* the inner loop of lines 90-92 for one paper
InstitutionsOfPaper(paper) ==
    LET as == Get(paper, "authorships", <<>>)
    IN  Concat([k \in 1..Len(as) |->
                  IF HasInstitutions(as[k]) THEN InstitutionNames(as[k]) ELSE <<>>])

\* the inner loop of lines 93-95 for one paper
AuthorsOfPaper(paper) ==
    LET as == Get(paper, "authorships", <<>>)
    IN  Concat([k \in 1..Len(as) |->
                  IF HasAuthor(as[k])
                  THEN <<Get(as[k].author, "display_name", None)>> ELSE <<>>])

InstitutionList(results) ==
    Concat([i \in 1..Len(results) |-> InstitutionsOfPaper(results[i])])

AuthorList(results) ==
    Concat([i \in 1..Len(results) |-> AuthorsOfPaper(results[i])])

\* lines 72-80; the year of a top paper is kept as <<y>>, or <<>> for the "" default
TopPaper(paper) ==
    [title     |-> Get(paper, "title", ""),
     citations |-> Get(paper, "cited_by_count", 0),
     year      |-> IF "publication_year" \in DOMAIN paper
                   THEN <<paper.publication_year>> ELSE <<>>,
     doi       |-> Get(paper, "doi", "")]

TopPapers(results) ==
    LET top == Take(results, TopN) IN [i \in 1..Len(top) |-> TopPaper(top[i])]

\* the ResearchStats constructed at lines 100-106 (charts still None)
ResearchStats(api_response) ==
    LET results == Get(api_response, "results", <<>>)
    IN  [total_papers     |-> Get(Get(api_response, "meta", <<>>), "count", 0),
         top_papers       |-> TopPapers(results),
         yearly_trends    |-> sorted_items(Counter(YearsOf(results))),
         top_institutions |-> most_common(Counter(InstitutionList(results)), TopN),
         top_authors      |-> most_common(Counter(AuthorList(results)), TopN),
         charts           |-> <<>>]

----------------------------------------------------------------------------
(* format_insights, lines 113-154 *)

RECURSIVE Join(_)
\* "\n".join(message)
Join(lines) ==
    IF lines = <<>> THEN <<>>
    ELSE IF Len(lines) = 1 THEN lines[1]
    ELSE lines[1] \o <<"\n">> \o Join(Tail(lines))

\* the three-digit group of the "," format
Pad3(k) ==
    IF k < 10 THEN <<"00", ToString(k)>>
    ELSE IF k < 100 THEN <<"0", ToString(k)>> ELSE <<ToString(k)>>

RECURSIVE Thousands(_)
\* f"{n:,}" for n >= 0
Thousands(n) ==
    IF n < 1000 THEN <<ToString(n)>>
    ELSE Thousands(n \div 1000) \o <<",">> \o Pad3(n % 1000)

HeaderLines ==
    << <<"Market Research Insights">> >>

TrendHeader ==
    << <<"\n", "Research Interest:">>, <<"Year | Number of Papers">>,
       <<"-----|----------------">> >>

PapersHeader == << <<"\n", "Top Cited Papers:">>, <<"-------------------">> >>

InstitutionsHeader ==
    << <<"\n", "Leading Institutions:">>, <<"--------------------">> >>

AuthorsHeader == << <<"\n", "Top Researchers:">>, <<"----------------">> >>

YearRow(item) == <<ToString(item[1]), " | ", ToString(item[2])>>

PaperBlock(p) ==
    <<"* ", p.title, "\n", "  Citations: ">> \o Thousands(p.citations)
        \o <<" | Year: ">> \o (IF p.year = <<>> THEN <<"">> ELSE <<ToString(p.year[1])>>)
        \o <<"\n", "  DOI: ", p.doi>>

CountRow(item) == <<"* ", item[1], " (", ToString(item[2]), " papers)">>

format_insights(stats) ==
    Join(HeaderLines
         \o << <<"\n", "Found ">> \o Thousands(stats.total_papers)
                 \o <<" academic papers on this topic">> >>
         \o TrendHeader
         \o [i \in 1..Len(stats.yearly_trends) |-> YearRow(stats.yearly_trends[i])]
         \o PapersHeader
         \o [i \in 1..Len(stats.top_papers) |-> PaperBlock(stats.top_papers[i])]
         \o InstitutionsHeader
         \o [i \in 1..Len(stats.top_institutions) |-> CountRow(stats.top_institutions[i])]
         \o AuthorsHeader
         \o [i \in 1..Len(stats.top_authors) |-> CountRow(stats.top_authors[i])])

----------------------------------------------------------------------------
(* create_visualization_charts, lines 187-242, over pyplot's figure registry *)

ChartIds == <<"trend", "institutions", "authors">>

\* zip(*pairs) unpacked into two names raises ValueError exactly on no pairs
ZipUnpackRaises(pairs) == pairs = <<>>

UnpackMessage == <<"not enough values to unpack (expected 2, got 0)">>

Firsts(pairs) == [i \in 1..Len(pairs) |-> pairs[i][1]]

Seconds(pairs) == [i \in 1..Len(pairs) |-> pairs[i][2]]

\* what the plotting calls of one chart put on the current figure
DrawOp(id, stats) ==
    IF id = "trend"
    THEN [kind |-> "plot", title |-> "Research Trend Over Time",
          labels |-> Firsts(stats.yearly_trends), values |-> Seconds(stats.yearly_trends)]
    ELSE IF id = "institutions"
    THEN [kind |-> "barh", title |-> "Top Research Institutions",
          labels |-> Firsts(stats.top_institutions),
          values |-> Seconds(stats.top_institutions)]
    ELSE [kind |-> "barh", title |-> "Top Authors in the Field",
          labels |-> Firsts(stats.top_authors), values |-> Seconds(stats.top_authors)]

\* the (name, count) pairs a bar chart unpacks; the trend chart unpacks nothing
ChartPairs(id, stats) ==
    IF id = "institutions" THEN stats.top_institutions
    ELSE IF id = "authors" THEN stats.top_authors ELSE <<"n/a">>

\* plt.figure(): a new empty figure becomes the current one
plt_figure(fs) == Append(fs, <<>>)

\* plt.plot / plt.barh / plt.title ...: drawn on the current figure, which
\* pyplot creates when there is none
plt_draw(fs, op) ==
    IF fs = <<>> THEN << <<op>> >>
    ELSE [fs EXCEPT ![Len(fs)] = Append(@, op)]

\* the figure plt.savefig writes: the current one, created when there is none
plt_gcf(fs) == IF fs = <<>> THEN <<>> ELSE fs[Len(fs)]

plt_after_gcf(fs) == IF fs = <<>> THEN << <<>> >> ELSE fs

\* plt.close(): the current figure is destroyed, the one before it is current
plt_close(fs) == IF fs = <<>> THEN fs ELSE SubSeq(fs, 1, Len(fs) - 1)

\* base64.b64encode(buffer.getvalue()).decode() of the PNG of a figure
Encode(figure) == [b64 |-> [png |-> figure]]

\* base64.b64decode
Decode(blob) == blob.b64

----------------------------------------------------------------------------
(* inputs: concepts typed at the prompt, payloads the search API returns *)

Concepts ==
    { <<"q", "u", "i", "t">>, <<"Q", "u", "I", "T">>, <<"a", "i">>,
      <<"a", "/", "b">>, <<"m", " ", "l">> }

LowerChar(c) ==
    CASE c = "Q" -> "q" [] c = "U" -> "u" [] c = "I" -> "i" [] c = "T" -> "t"
      [] OTHER -> c

\* str.lower()
Lower(s) == [i \in 1..Len(s) |-> LowerChar(s[i])]

\* str.replace(' ', '_')
ReplaceSpaces(s) == [i \in 1..Len(s) |-> IF s[i] = " " THEN "_" ELSE s[i]]

Quit == <<"q", "u", "i", "t">>

\* the lines that start a run
RunConcepts == {c \in Concepts : Lower(c) # Quit}

Inst(n) == [display_name |-> n]

Auth(n) == [display_name |-> n]

R1 ==
    [title |-> "t1", cited_by_count |-> 1900, publication_year |-> 2020, doi |-> "d1",
     authorships |-> << [author |-> Auth("a1"), institutions |-> <<Inst("A"), Inst("B")>>] >>]

R2 ==
    [title |-> "t2", cited_by_count |-> 800, publication_year |-> 2021,
     authorships |-> << [author |-> Auth("a2"), institutions |-> <<Inst("A")>>],
                        [author |-> Auth("a1"), institutions |-> <<Inst("C"), Inst("D")>>] >>]

R3 ==
    [cited_by_count |-> 700,
     authorships |-> << [author |-> [id |-> "x"],
                         institutions |-> <<[id |-> "i"], Inst("E")>>],
                        [institutions |-> <<>>] >>]

R4 ==
    [title |-> "t4", publication_year |-> 2020, doi |-> "d4",
     authorships |-> << [author |-> Auth("a3"), institutions |-> <<Inst("E"), Inst("F")>>],
                        [author |-> Auth("a4"), institutions |-> <<Inst("G"), Inst("B")>>] >>]

R5 == [title |-> "t5", cited_by_count |-> 5, publication_year |-> 2019]

R6 ==
    [title |-> "t6", cited_by_count |-> 4, publication_year |-> 2021,
     authorships |-> << [author |-> Auth("a5")],
                        [author |-> Auth("a6"), institutions |-> <<Inst("F")>>],
                        [author |-> <<>>, institutions |-> <<Inst("H")>>] >>]

RecordShapes == {R1, R2, R3, R4, R5, R6}

\* only authors, no institution anywhere
R7 == [title |-> "t7", cited_by_count |-> 7, publication_year |-> 2022,
       authorships |-> << [author |-> Auth("a1")] >>]

\* only institutions, no author anywhere
R8 == [title |-> "t8", cited_by_count |-> 8, publication_year |-> 2018,
       authorships |-> << [institutions |-> <<Inst("A")>>] >>]

FullPayload == [meta |-> [count |-> 1234], results |-> <<R1, R2>>]

OtherPayload == [results |-> <<R4, R3>>]

AuthorsOnlyPayload == [meta |-> [count |-> 70], results |-> <<R7>>]

InstitutionsOnlyPayload == [meta |-> [count |-> 80], results |-> <<R8>>]

Payloads ==
    { FullPayload,
      [meta |-> [count |-> 0], results |-> <<>>],
      AuthorsOnlyPayload,
      InstitutionsOnlyPayload,
      OtherPayload }

RECURSIVE SeqsUpTo(_, _)
SeqsUpTo(S, n) ==
    IF n = 0 THEN {<<>>}
    ELSE LET shorter == SeqsUpTo(S, n - 1)
         IN  shorter \cup {Append(s, x) : s \in {q \in shorter : Len(q) = n - 1}, x \in S}

\* the payloads the aggregation is checked on
AggInputs ==
    {[meta |-> [count |-> 1000 * Len(rs)], results |-> rs] : rs \in SeqsUpTo(RecordShapes, MaxRecords)}

----------------------------------------------------------------------------
(* state *)

VARIABLES
    main_pc,        \* where main is: "prompt", "running", "saving", "exited", "crashed"
    concept,        \* main's local: the line read at the prompt
    stdout,         \* what the current iteration of main's loop has printed
    files,          \* the chart files main has written: <<name, bytes>>
    nruns,          \* runs started by main
    nfailed,        \* consecutive failed runs seen by main
    th,             \* per caller of ResearchBot.run: its position and locals
    figs,           \* pyplot's process-wide figure registry, current figure last
    current_state,  \* ResearchBot.current_state
    world           \* what the external services and backends may do

vars == <<main_pc, concept, stdout, files, nruns, nfailed, th, figs, current_state, world>>

Threads == {1, 2}

\* workflow.set_entry_point, workflow.set_finish_point
EntryPoint == "query"

FinishPoint == "insights"

\* class State, lines 43-49, as workflow.invoke({"concept": concept}) starts it
NewState(c) ==
    [concept |-> c, api_response |-> <<>>, stats |-> <<>>, result |-> <<>>,
     investment_insights |-> <<>>, charts |-> <<>>]

Idle ==
    [pc |-> "idle", state |-> NewState(<<>>), charts |-> <<>>, ci |-> 1, exc |-> <<>>,
     ret |-> <<>>, trace |-> <<>>, llm_calls |-> 0, failed_chart |-> <<>>]

\* the call bot.run(concept) entering workflow.invoke at the entry point
Call(c) == [Idle EXCEPT !.pc = EntryPoint, !.state = NewState(c)]

----------------------------------------------------------------------------
(* the graph of build_graph, lines 258-296 *)

\* a plausible slip: an edge that skips formatting
NextNode_skip(n) ==
    CASE n = "query" -> "analyze" [] n = "analyze" -> "insights" [] OTHER -> "end"

\* workflow.add_edge, lines 286-288, and the finish point
NextNode(n) ==
    CASE n = "query" -> "analyze" [] n = "analyze" -> "format"
      [] n = "format" -> "insights" [] n = FinishPoint -> "end"

StatusCodes == {200, 404}

Narratives == {<<"narrative-1">>, <<"narrative-2">>}

ServiceErrors == {<<"request timed out">>}

\* query_openalex, lines 51-64, inside query_node, lines 263-265

\* every outcome the collaborators can produce
AnyWorld ==
    [outcomes   |-> {"response", "connection_error"},
     codes      |-> StatusCodes,
     bodies     |-> [c \in RunConcepts |-> Payloads],
     savefig_ok |-> BOOLEAN,
     replies    |-> [ok : {TRUE}, text : Narratives] \cup [ok : {FALSE}, text : ServiceErrors]]

\* the services answer and the backend renders
HealthyWorld ==
    [outcomes   |-> {"response"},
     codes      |-> {200},
     bodies     |-> [c \in RunConcepts |->
                        IF c = <<"a", "i">> THEN {FullPayload}
                        ELSE IF c = <<"m", " ", "l">> THEN {AuthorsOnlyPayload}
                        ELSE {InstitutionsOnlyPayload}],
     savefig_ok |-> {TRUE},
     replies    |-> [ok : {TRUE}, text : {<<"narrative-1">>}]]

\* world names which of the two the collaborators follow
WorldOf(w) == IF w = "healthy" THEN HealthyWorld ELSE AnyWorld

QueryNode(t) ==
    /\ th[t].pc = "query"
    /\ \E outcome \in WorldOf(world).outcomes, code \in WorldOf(world).codes, body \in WorldOf(world).bodies[th[t].state.concept] :
          LET entered == [th EXCEPT ![t].trace = Append(@, "query")]
          IN  th' =
                IF outcome = "connection_error"
                THEN [entered EXCEPT ![t].pc = "raised",
                        ![t].exc = <<[type |-> "ConnectionError",
                                      msg |-> <<"connection failed">>]>>]
                ELSE IF code # 200
                THEN [entered EXCEPT ![t].pc = "raised",
                        ![t].exc = <<[type |-> "Exception",
                                      msg |-> <<"OpenAlex API request failed with status ",
                                                ToString(code)>>]>>]
                ELSE [entered EXCEPT ![t].pc = NextNode("query"),
                        ![t].state.api_response = <<body>>]
    /\ UNCHANGED <<main_pc, concept, stdout, files, nruns, nfailed, figs, current_state, world>>

\* analyze_node, line 268, entering analyze_research_data: lines 68-106 build
\* the statistics, then create_visualization_charts starts (line 189)
AnalyzeNode(t) ==
    /\ th[t].pc = "analyze"
    /\ th' = [th EXCEPT ![t].trace = Append(@, "analyze"),
                        ![t].state.stats = <<ResearchStats(th[t].state.api_response[1])>>,
                        ![t].charts = <<>>, ![t].ci = 1, ![t].pc = "chart_figure"]
    /\ UNCHANGED <<main_pc, concept, stdout, files, nruns, nfailed, figs, current_state, world>>

\* the ResearchStats under construction; before analyze_node returns it is a
\* local of analyze_research_data, kept here in the same slot
StatsOf(t) == th[t].state.stats[1]

\* plt.figure(figsize=...), lines 195, 213, 228
ChartFigure(t) ==
    /\ th[t].pc = "chart_figure"
    /\ figs' = plt_figure(figs)
    /\ th' = [th EXCEPT ![t].pc = "chart_draw"]
    /\ UNCHANGED <<main_pc, concept, stdout, files, nruns, nfailed, current_state, world>>

\* lines 196-203, 214-219, 229-234: the data is unpacked and drawn
ChartDraw(t) ==
    /\ th[t].pc = "chart_draw"
    /\ LET id == ChartIds[th[t].ci]
       IN  IF ZipUnpackRaises(ChartPairs(id, StatsOf(t)))
           THEN /\ th' = [th EXCEPT ![t].pc = "raised",
                            ![t].exc = <<[type |-> "ValueError", msg |-> UnpackMessage]>>,
                            ![t].failed_chart = <<id>>]
                /\ figs' = figs
           ELSE /\ figs' = plt_draw(figs, DrawOp(id, StatsOf(t)))
                /\ th' = [th EXCEPT ![t].pc = "chart_save"]
    /\ UNCHANGED <<main_pc, concept, stdout, files, nruns, nfailed, current_state, world>>

\* the message of an exception raised by the rendering backend
BackendMessage == <<"savefig: backend error">>

\* lines 206-209, 221-224, 236-239: savefig into a buffer, which the backend
\* may fail to do, then the base64 text stored under the chart's identifier
ChartSave(t) ==
    /\ th[t].pc = "chart_save"
    /\ \E ok \in WorldOf(world).savefig_ok :
          LET id == ChartIds[th[t].ci]
          IN  IF ok
              THEN th' = [th EXCEPT ![t].pc = "chart_close",
                            ![t].charts = Append(@, <<id, Encode(plt_gcf(figs))>>)]
              ELSE th' = [th EXCEPT ![t].pc = "raised",
                            ![t].exc = <<[type |-> "BackendError", msg |-> BackendMessage]>>,
                            ![t].failed_chart = <<id>>]
    /\ figs' = plt_after_gcf(figs)
    /\ UNCHANGED <<main_pc, concept, stdout, files, nruns, nfailed, current_state, world>>

\* plt.close(), lines 210, 225, 240; after the third chart line 242 returns the
\* mapping, line 109 attaches it and analyze_node returns (line 269)
ChartClose(t) ==
    /\ th[t].pc = "chart_close"
    /\ figs' = plt_close(figs)
    /\ th' = IF th[t].ci < Len(ChartIds)
             THEN [th EXCEPT ![t].pc = "chart_figure", ![t].ci = @ + 1]
             ELSE [th EXCEPT ![t].pc = NextNode("analyze"),
                     ![t].state.stats = <<[StatsOf(t) EXCEPT !.charts = <<th[t].charts>>]>>,
                     ![t].state.charts = <<th[t].charts>>]
    /\ UNCHANGED <<main_pc, concept, stdout, files, nruns, nfailed, current_state, world>>

\* format_node, lines 271-273
FormatNode(t) ==
    /\ th[t].pc = "format"
    /\ th' = [th EXCEPT ![t].trace = Append(@, "format"),
                        ![t].state.result = <<format_insights(StatsOf(t))>>,
                        ![t].pc = NextNode("format")]
    /\ UNCHANGED <<main_pc, concept, stdout, files, nruns, nfailed, figs, current_state, world>>

\* a plausible slip: the failure is swallowed and an empty narrative returned
generate_on_error_swallow(e) == [raised |-> FALSE, value |-> <<>>]

\* the except clause of generate_investment_insights, lines 183-185
generate_on_error(e) ==
    [raised |-> TRUE, value |-> <<"Azure OpenAI API call failed: ">> \o e]

\* insights_node, lines 275-277, calling generate_investment_insights, lines 156-185
InsightsNode(t) ==
    /\ th[t].pc = "insights"
    /\ \E reply \in WorldOf(world).replies :
          LET called == [th EXCEPT ![t].trace = Append(@, "insights"),
                                   ![t].llm_calls = @ + 1]
              handled == generate_on_error(reply.text)
          IN  /\ th' =
                   IF reply.ok
                   THEN [called EXCEPT ![t].state.investment_insights = <<reply.text>>,
                                       ![t].pc = NextNode("insights")]
                   ELSE IF handled.raised
                   THEN [called EXCEPT ![t].pc = "raised",
                           ![t].exc = <<[type |-> "Exception", msg |-> handled.value]>>]
                   ELSE [called EXCEPT ![t].state.investment_insights = <<handled.value>>,
                                       ![t].pc = NextNode("insights")]
              /\ stdout' = IF reply.ok THEN stdout
                           ELSE Append(stdout, <<"Detailed error: ">> \o reply.text)
    /\ UNCHANGED <<main_pc, concept, files, nruns, nfailed, figs, current_state, world>>

----------------------------------------------------------------------------
(* ResearchBot.run, lines 298-305 *)

\* a plausible slip: the handler re-raises instead of returning a failure value
run_except_reraise(e) == [raised |-> TRUE, value |-> <<>>]

\* line 305: the failure value returned for exception e
run_except(e) ==
    [raised |-> FALSE, value |-> <<<<"Error: ">> \o e.msg, <<>>, <<>>>>]

\* lines 302-303: the workflow finished
RunReturn(t) ==
    /\ th[t].pc = "end"
    /\ current_state' = <<th[t].state>>
    /\ th' = [th EXCEPT ![t].pc = "returned",
                ![t].ret = <<<<th[t].state.result[1], th[t].state.investment_insights[1],
                               th[t].state.charts>>>>]
    /\ UNCHANGED <<main_pc, concept, stdout, files, nruns, nfailed, figs, world>>

\* lines 304-305: the workflow raised
RunExcept(t) ==
    /\ th[t].pc = "raised"
    /\ LET h == run_except(th[t].exc[1])
       IN  th' = IF h.raised THEN [th EXCEPT ![t].pc = "propagated"]
                 ELSE [th EXCEPT ![t].pc = "returned", ![t].ret = <<h.value>>]
    /\ UNCHANGED <<main_pc, concept, stdout, files, nruns, nfailed, figs, current_state, world>>

Step(t) ==
    \/ QueryNode(t)
    \/ AnalyzeNode(t)
    \/ ChartFigure(t)
    \/ ChartDraw(t)
    \/ ChartSave(t)
    \/ ChartClose(t)
    \/ FormatNode(t)
    \/ InsightsNode(t)
    \/ RunReturn(t)
    \/ RunExcept(t)

----------------------------------------------------------------------------
(* main, lines 307-334 *)

\* lines 311-315: a line is read; 'quit' in any case leaves the loop, anything
\* else is researched
MainInput(c) ==
    /\ main_pc = "prompt"
    /\ concept' = c
    /\ IF Lower(c) = Quit
       THEN /\ main_pc' = "exited"
            /\ UNCHANGED <<stdout, nruns, th>>
       ELSE /\ nruns < MaxRuns
            /\ main_pc' = "running"
            /\ nruns' = nruns + 1
            /\ stdout' = <<>>
            /\ th' = [th EXCEPT ![1] = Call(c)]
    /\ UNCHANGED <<files, nfailed, figs, current_state, world>>

\* truthiness of the charts returned by run: neither None nor an empty dict
Truthy(charts) == charts # <<>> /\ charts[1] # <<>>

\* lines 315-323: run has returned and its report and narrative are printed;
\* an exception leaving run would leave main as well
MainPrint ==
    /\ main_pc = "running"
    /\ th[1].pc \in {"returned", "propagated"}
    /\ IF th[1].pc = "propagated"
       THEN /\ main_pc' = "crashed"
            /\ UNCHANGED <<stdout, nfailed>>
       ELSE LET r == th[1].ret[1]
            IN  /\ stdout' = stdout \o << <<"=== RESEARCH DATA ===">>, r[1],
                                          <<"=== INVESTMENT INSIGHTS ===">>, r[2] >>
                /\ main_pc' = IF Truthy(r[3]) THEN "saving" ELSE "prompt"
                /\ nfailed' = IF th[1].exc # <<>> THEN nfailed + 1 ELSE 0
    /\ UNCHANGED <<concept, files, nruns, th, figs, current_state, world>>

ChartFile(c, id) == ReplaceSpaces(c) \o <<"_", id, "_chart.png">>

\* lines 324-334: every chart is decoded and written to its file; open() fails
\* when the name leads into a directory that does not exist
MainSave ==
    /\ main_pc = "saving"
    /\ \E dir_exists \in BOOLEAN :
          LET charts == th[1].ret[1][3][1]
              written == {<<ChartFile(concept, charts[i][1]), Decode(charts[i][2])>>
                            : i \in 1..Len(charts)}
          IN  IF "/" \in Range(concept) /\ ~dir_exists
              THEN /\ main_pc' = "crashed"
                   /\ files' = files
                   /\ stdout' = Append(stdout, <<"=== VISUALIZATION CHARTS ===">>)
              ELSE /\ main_pc' = "prompt"
                   /\ files' = {f \in files : \A w \in written : w[1] # f[1]} \cup written
                   /\ stdout' = Append(stdout, <<"=== VISUALIZATION CHARTS ===">>)
    /\ UNCHANGED <<concept, nruns, nfailed, th, figs, current_state, world>>

----------------------------------------------------------------------------
(* specifications *)

\* main as the program runs it: one caller, one run at a time
Init ==
    /\ main_pc = "prompt"
    /\ concept = <<>>
    /\ stdout = <<>>
    /\ files = {}
    /\ nruns = 0
    /\ nfailed = 0
    /\ th = [t \in Threads |-> Idle]
    /\ figs = <<>>
    /\ current_state = <<>>
    /\ world = "any"

Next ==
    \/ \E c \in Concepts : MainInput(c)
    \/ MainPrint
    \/ MainSave
    \/ Step(1)

Spec == Init /\ [][Next]_vars

\* once a node has raised nothing blocks: the handler of run and the printing
\* in main are local steps of one sequential program
FairSpec == Spec /\ WF_vars(RunExcept(1)) /\ WF_vars(MainPrint)

\* main with collaborators that answer: only the program's own code can fail
InitHealthy ==
    /\ main_pc = "prompt"
    /\ concept = <<>>
    /\ stdout = <<>>
    /\ files = {}
    /\ nruns = 0
    /\ nfailed = 0
    /\ th = [t \in Threads |-> Idle]
    /\ figs = <<>>
    /\ current_state = <<>>
    /\ world = "healthy"

SpecHealthy == InitHealthy /\ [][Next]_vars

\* two callers of run on the same ResearchBot in one process, interleaved

InitConc ==
    /\ main_pc = "library"
    /\ concept = <<>>
    /\ stdout = <<>>
    /\ files = {}
    /\ nruns = 0
    /\ nfailed = 0
    /\ \E c1 \in {<<"a", "i">>}, c2 \in {<<"m", " ", "l">>} :
          th = [t \in Threads |-> IF t = 1 THEN Call(c1) ELSE Call(c2)]
    /\ figs = <<>>
    /\ current_state = <<>>
    /\ world = "healthy"

NextConc == \E t \in Threads : Step(t)

SpecConc == InitConc /\ [][NextConc]_vars

\* analyze_research_data applied to every payload of AggInputs
InitAgg ==
    /\ main_pc = "library"
    /\ concept = <<>>
    /\ stdout = <<>>
    /\ files = {}
    /\ nruns = 0
    /\ nfailed = 0
    /\ \E p \in AggInputs :
          th = [t \in Threads |->
                  IF t = 1
                  THEN [Call(<<"a", "i">>) EXCEPT !.pc = "analyze", !.trace = <<"query">>,
                                                  !.state.api_response = <<p>>]
                  ELSE Idle]
    /\ figs = <<>>
    /\ current_state = <<>>
    /\ world = "any"

NextAgg == AnalyzeNode(1)

SpecAgg == InitAgg /\ [][NextAgg]_vars

----------------------------------------------------------------------------
(* vocabulary of the claims *)

Order == <<"query", "analyze", "format", "insights">>

IsPrefix(s, r) == Len(s) <= Len(r) /\ \A i \in 1..Len(s) : s[i] = r[i]

Returned(t) == th[t].pc = "returned"

Failed(t) == th[t].exc # <<>>

\* the payload thread t fetched, once it has one
ResultsOf(t) == Get(th[t].state.api_response[1], "results", <<>>)

\* the charts a run renders when nothing else touches pyplot
ExpectedCharts(stats) ==
    [i \in 1..Len(ChartIds) |-> <<ChartIds[i], Encode(<<DrawOp(ChartIds[i], stats)>>)>>]

\* positions <<record, authorship, institution>> of the institution entries
InstPositions(rs) ==
    UNION {UNION {{<<i, k, j>> : j \in 1..Len(Get(rs[i].authorships[k], "institutions", <<>>))}
                  : k \in 1..Len(Get(rs[i], "authorships", <<>>))}
           : i \in 1..Len(rs)}

InstNameAt(rs, p) ==
    Get(rs[p[1]].authorships[p[2]].institutions[p[3]], "display_name", None)

\* positions <<record, authorship, 1>> of the authorship entries that carry an
\* author object
AuthPositions(rs) ==
    UNION {{<<i, k, 1>> : k \in {x \in 1..Len(Get(rs[i], "authorships", <<>>)) :
                                   /\ "author" \in DOMAIN rs[i].authorships[x]
                                   /\ DOMAIN rs[i].authorships[x].author # {}}}
           : i \in 1..Len(rs)}

AuthNameAt(rs, p) == Get(rs[p[1]].authorships[p[2]].author, "display_name", None)

LexLess(p, q) ==
    \/ p[1] < q[1]
    \/ p[1] = q[1] /\ p[2] < q[2]
    \/ p[1] = q[1] /\ p[2] = q[2] /\ p[3] < q[3]

\* n's first occurrence comes before m's
FirstBefore(P, n, m) ==
    \E p \in P[n] : \A q \in P[m] : LexLess(p, q)

\* top ranks the names of the positions by descending count, first occurrence
\* first on ties, and keeps the first TopN of that ranking
RankedByCountThenFirst(top, names, P) ==
    LET cnt(n) == Cardinality(P[n])
        kept == {top[i][1] : i \in 1..Len(top)}
    IN  /\ kept \subseteq names
        /\ \A i \in 1..Len(top) : top[i][2] = cnt(top[i][1])
        /\ Len(top) = (IF Cardinality(names) < TopN THEN Cardinality(names) ELSE TopN)
        /\ \A i \in 1..Len(top) : \A j \in 1..Len(top) :
              i < j => \/ top[i][2] > top[j][2]
                       \/ /\ top[i][2] = top[j][2]
                          /\ FirstBefore(P, top[i][1], top[j][1])
        /\ \A n \in kept : \A m \in names \ kept :
              \/ cnt(n) > cnt(m)
              \/ cnt(n) = cnt(m) /\ FirstBefore(P, n, m)

InstByName(rs) ==
    LET ps == InstPositions(rs)
    IN  [n \in {InstNameAt(rs, p) : p \in ps} |-> {p \in ps : InstNameAt(rs, p) = n}]

AuthByName(rs) ==
    LET ps == AuthPositions(rs)
    IN  [n \in {AuthNameAt(rs, p) : p \in ps} |-> {p \in ps : AuthNameAt(rs, p) = n}]

\* a tie in count between a kept name and a dropped one
TieAtCutoff(top, P) ==
    /\ Len(top) = TopN
    /\ \E m \in DOMAIN P : /\ \A i \in 1..Len(top) : top[i][1] # m
                           /\ Cardinality(P[m]) = top[TopN][2]

----------------------------------------------------------------------------
(* claims *)

\* C1: a run that has returned either completed all four nodes and hands the
\* caller the text report, a narrative and all three charts, or it failed and
\* hands the caller the failure value alone: no narrative, no charts, and an
\* error line where the report would be.
C1_AllOrNothing ==
    \A t \in Threads : Returned(t) =>
        LET r == th[t].ret[1]
        IN  IF Failed(t)
            THEN /\ r[1] = <<"Error: ">> \o th[t].exc[1].msg
                 /\ r[2] = <<>>
                 /\ r[3] = <<>>
            ELSE /\ th[t].trace = Order
                 /\ r[1] = format_insights(StatsOf(t))
                 /\ r[2] \in Narratives
                 /\ r[3] # <<>>
                 /\ {r[3][1][i][1] : i \in 1..Len(r[3][1])} = Range(ChartIds)

\* C1 witness: the search API answered 404 after an earlier run had completed
C1_Witness ==
    /\ Returned(1)
    /\ Failed(1)
    /\ th[1].exc[1].msg = <<"OpenAlex API request failed with status ", "404">>
    /\ th[1].state.stats = <<>>
    /\ current_state # <<>>

\* C2 (state part): the nodes entered so far are a prefix of query, analyze,
\* format, insights; a node is entered only from the position its predecessor's
\* completion leads to; the completion service is called at most once, and only
\* as the fourth node; a failed run is at no node.
C2_OrderInv ==
    \A t \in Threads :
        /\ IsPrefix(th[t].trace, Order)
        /\ th[t].pc = "query" => th[t].trace = <<>>
        /\ th[t].pc \in {"analyze"} => th[t].trace = SubSeq(Order, 1, 1)
        /\ th[t].pc \in {"chart_figure", "chart_draw", "chart_save", "chart_close", "format"}
              => th[t].trace = SubSeq(Order, 1, 2)
        /\ th[t].pc = "insights" => th[t].trace = SubSeq(Order, 1, 3)
        /\ th[t].pc = "end" => th[t].trace = Order /\ ~Failed(t)
        /\ th[t].llm_calls = (IF Len(th[t].trace) = 4 THEN 1 ELSE 0)
        /\ Failed(t) => th[t].pc \in {"raised", "returned", "propagated"}

\* C2 (step part): within a run, once a node has raised no further node is
\* entered and the completion service is not called.
C2_FailedAbsorbs ==
    \A t \in Threads :
        (Failed(t) /\ Failed(t)')
            => /\ th'[t].trace = th[t].trace
               /\ th'[t].llm_calls = th[t].llm_calls

\* C2: the nodes run in the fixed order, each at most once, and failure is final
C2_FixedOrder == []C2_OrderInv /\ [][C2_FailedAbsorbs]_vars

\* C2 witness: a run that failed while aggregating, the later nodes never entered
C2_Witness ==
    /\ Returned(1)
    /\ Failed(1)
    /\ th[1].trace = <<"query", "analyze">>
    /\ th[1].llm_calls = 0

\* C3 (as claimed): with an empty record sequence aggregation succeeds: the
\* statistics have empty trend and top lists and the reported total, and the
\* run fails, if at all, only because a backend or a service failed, after
\* which the report with its headers and empty bodies is produced.
C3_EmptyInputSucceeds ==
    \A t \in Threads :
        (th[t].state.stats # <<>> /\ ResultsOf(t) = <<>>) =>
            /\ StatsOf(t).yearly_trends = <<>>
            /\ StatsOf(t).top_papers = <<>>
            /\ StatsOf(t).top_institutions = <<>>
            /\ StatsOf(t).top_authors = <<>>
            /\ StatsOf(t).total_papers =
                   Get(Get(th[t].state.api_response[1], "meta", <<>>), "count", 0)
            /\ Failed(t) => th[t].exc[1].type \in {"BackendError", "Exception"}
            /\ th[t].state.result # <<>> =>
                   th[t].state.result[1] =
                       Join(HeaderLines
                            \o << <<"\n", "Found ">> \o Thousands(StatsOf(t).total_papers)
                                    \o <<" academic papers on this topic">> >>
                            \o TrendHeader \o PapersHeader \o InstitutionsHeader
                            \o AuthorsHeader)

\* C4 (as claimed): a chart that fails to render surfaces as a RenderError
\* whose message names the identifier of that chart.
C4_RenderErrorNamesChart ==
    \A t \in Threads :
        th[t].failed_chart # <<>> =>
            /\ Failed(t)
            /\ th[t].exc[1].type = "RenderError"
            /\ th[t].failed_chart[1] \in Range(th[t].exc[1].msg)

\* C5 (step part): when main leaves a failed run it has printed the failure
\* value, with an empty narrative, and is back at the prompt with one more
\* consecutive failure counted; a line typed at the prompt leaves the loop
\* exactly when it is 'quit' in some case, and otherwise starts a run.
C5_Step ==
    /\ (main_pc = "running" /\ Failed(1) /\ main_pc' # "running") =>
          /\ main_pc' = "prompt"
          /\ nfailed' = nfailed + 1
          /\ Len(stdout') >= 4
          /\ stdout'[Len(stdout') - 2] = <<"Error: ">> \o th[1].exc[1].msg
          /\ stdout'[Len(stdout')] = <<>>
    /\ (main_pc = "prompt" /\ main_pc' # "prompt") =>
          main_pc' = (IF Lower(concept') = Quit THEN "exited" ELSE "running")

\* C5 (state part): main never crashes after a failed run
C5_Inv == main_pc = "crashed" => ~Failed(1)

\* C5: the loop survives every failed run: it never crashes on one, prints the
\* failure value, comes back to the prompt, and keeps prompting until 'quit'
C5_LoopSurvivesFailure ==
    /\ []C5_Inv
    /\ [][C5_Step]_vars
    /\ (main_pc = "running" /\ Failed(1)) ~> (main_pc = "prompt")

\* C5 witness: back at the prompt after two failed runs in a row
C5_Witness == main_pc = "prompt" /\ nfailed >= 2

\* C6 (as claimed): the charts a completed run returns are those of its own
\* statistics, whatever another run on the same ResearchBot did meanwhile.
C6_RunsIndependent ==
    \A t \in Threads :
        (Returned(t) /\ ~Failed(t)) => th[t].ret[1][3][1] = ExpectedCharts(StatsOf(t))

\* C7: the keys of yearly_trends are exactly the years of the records that
\* have one, in strictly ascending order, each with the number of records of
\* that year.
C7_YearlyTrend ==
    \A t \in Threads :
        th[t].state.stats # <<>> =>
            LET rs == ResultsOf(t)
                yt == StatsOf(t).yearly_trends
                dated == {i \in 1..Len(rs) : "publication_year" \in DOMAIN rs[i]}
            IN  /\ {yt[k][1] : k \in 1..Len(yt)} = {rs[i].publication_year : i \in dated}
                /\ \A k \in 1..Len(yt) - 1 : yt[k][1] < yt[k + 1][1]
                /\ \A k \in 1..Len(yt) :
                      yt[k][2] = Cardinality({i \in dated : rs[i].publication_year = yt[k][1]})

\* C7 witness: years 2020, 2021, 2020 and one record without a year
C7_Witness ==
    /\ th[1].state.stats # <<>>
    /\ ResultsOf(1) = <<R1, R2, R3, R4>>
    /\ StatsOf(1).yearly_trends = << <<2020, 2>>, <<2021, 1>> >>

\* C8: top_institutions and top_authors are ordered by descending count; of two
\* names with equal counts the one first met in record, authorship, institution
\* order comes first, and the same rule decides which names survive the cut.
C8_TieBreak ==
    \A t \in Threads :
        th[t].state.stats # <<>> =>
            LET rs == ResultsOf(t)
                PI == InstByName(rs)
                PA == AuthByName(rs)
            IN  /\ RankedByCountThenFirst(StatsOf(t).top_institutions, DOMAIN PI, PI)
                /\ RankedByCountThenFirst(StatsOf(t).top_authors, DOMAIN PA, PA)

\* C8 witness: a tie in count between the fifth institution and a dropped one,
\* and a tie between two kept ones
C8_Witness ==
    /\ th[1].state.stats # <<>>
    /\ TieAtCutoff(StatsOf(1).top_institutions, InstByName(ResultsOf(1)))
    /\ StatsOf(1).top_institutions[1][2] = StatsOf(1).top_institutions[2][2]

\* C9: the three top lists never hold more than five entries
C9_AtMostFive ==
    \A t \in Threads :
        th[t].state.stats # <<>> =>
            /\ Len(StatsOf(t).top_papers) <= 5
            /\ Len(StatsOf(t).top_institutions) <= 5
            /\ Len(StatsOf(t).top_authors) <= 5

\* C9 witness: more than five records, institutions and authors went in
C9_Witness ==
    /\ th[1].state.stats # <<>>
    /\ Len(ResultsOf(1)) > 5
    /\ Cardinality(DOMAIN InstByName(ResultsOf(1))) > 5
    /\ Cardinality(DOMAIN AuthByName(ResultsOf(1))) > 5
    /\ Len(StatsOf(1).top_papers) = 5
    /\ Len(StatsOf(1).top_institutions) = 5
    /\ Len(StatsOf(1).top_authors) = 5

\* C10 (as claimed): a named institution's count is the number of positions
\* carrying its name; an author's count is the number of authorship entries
\* with that display name; an entry without a display name adds nothing to
\* top_authors.
C10_Counts ==
    \A t \in Threads :
        th[t].state.stats # <<>> =>
            LET rs == ResultsOf(t)
                ti == StatsOf(t).top_institutions
                ta == StatsOf(t).top_authors
            IN  /\ \A i \in 1..Len(ti) :
                      ti[i][1] # None =>
                          ti[i][2] = Cardinality({p \in InstPositions(rs) :
                                                    InstNameAt(rs, p) = ti[i][1]})
                /\ \A i \in 1..Len(ta) :
                      /\ ta[i][1] # None
                      /\ ta[i][2] = Cardinality({p \in AuthPositions(rs) :
                                                   /\ "display_name" \in
                                                          DOMAIN rs[p[1]].authorships[p[2]].author
                                                   /\ AuthNameAt(rs, p) = ta[i][1]})

====
